---- MODULE Spec2Model ----
(***************************************************************************)
(* gomongoapi: a gin server that turns HTTP requests into read operations  *)
(* on a MongoDB client.  The model follows the newest revision of the      *)
(* server (src/unnamed/part_000, from the package comment on) and of its   *)
(* options (src/unnamed/part_002).                                         *)
(*                                                                         *)
(* Text that the code parses or formats (the limit query parameter, the    *)
(* default limit kept as a string) is a sequence of one-character strings. *)
(* A query parameter is the pair gin's GetQuery returns: [value, ok].      *)
(***************************************************************************)
EXTENDS Integers, Sequences, FiniteSets, TLC

VARIABLES
    opts,        \* the Options value being configured (part_002:15-36)
    srv,         \* the server struct built by NewServer (part_000:413-427)
    pc,          \* where the program is: configuring, Start's steps, serving
    mongoClient, \* s.mongoClient: "nil", "connected" or "disconnected"
    routes,      \* the routes registered on the gin engine
    startErr,    \* what Start returned: "none" while it has not returned
    released,    \* number of Disconnect calls made on the client
    logged,      \* TRUE once a failed Disconnect has been logged
    cur,         \* the request in the handler and what the handler did
    apiHandlers, \* the middleware of the /api group (s.apiRouter.Handlers)
    customHandlers, \* the middleware of the custom group
    chain,       \* for each registered route, the middleware before its handler
    setCalls,    \* the calls of SetCustomRouteName so far, each with its result
    inflight     \* for each goroutine of the engine, the request it is handling

vars == <<opts, srv, pc, mongoClient, routes, startErr, released, logged, cur,
          apiHandlers, customHandlers, chain, setCalls, inflight>>

\* net/http runs each request in a goroutine of its own
Goroutines == {"g1", "g2"}

\* what the extension points of the server write, and the concurrent view
\* of the handlers
ext == <<apiHandlers, customHandlers, chain, setCalls, inflight>>

----------------------------------------------------------------------------
(* The records of the model, each built by one operator.                   *)

\* what gin's GetQuery returns for a key, and what strconv.Atoi returns
\* (ok is "err == nil")
Result(value, ok) == [value |-> value, ok |-> ok]

\* the database name a handler settles on; found is FALSE when there is none
Resolved(dbName, found) == [dbName |-> dbName, found |-> found]

\* a request as gin hands it to a handler: the route it matched, the
\* database and limit query parameters, the name path parameter, the body
Request(route, database, name, limit, body) ==
    [route |-> route, database |-> database, name |-> name,
     limit |-> limit, body |-> body]

\* a JSON body bound to a Go map: err for a body that does not decode,
\* isNil for the nil map that the JSON text null leaves, keys for the keys
\* of the object, aggregate for the kind of value under "Aggregate"
Decoded(err, isNil, keys, aggregate) ==
    [err |-> err, isNil |-> isNil, keys |-> keys, aggregate |-> aggregate]

\* a call on the mongo client; setLimit is the limit of a Find's options
Call(fn, db, coll, setLimit, doc) ==
    [fn |-> fn, db |-> db, coll |-> coll, setLimit |-> setLimit, doc |-> doc]

\* the JSON value of a response
Json(kind, names, count) == [kind |-> kind, names |-> names, count |-> count]

\* a response: fault is TRUE when the handler panicked
FullResponse(status, msg, errText, json, fault) ==
    [status |-> status, msg |-> msg, errText |-> errText, json |-> json,
     fault |-> fault]

\* what a handler leaves behind: its response and its engine calls
Outcome(resp, calls) == [resp |-> resp, calls |-> calls]

\* the request in the handler, the engine state it met, and the outcome
Handling(req, eng, out) == [req |-> req, eng |-> eng, out |-> out]

----------------------------------------------------------------------------
(* Bounds of the model.                                                    *)

\* limit query parameters that are integers range over -1 .. MaxLimitValue
MaxLimitValue == 3
\* the number of SetCustomRouteName calls that are followed
MaxSetCalls == 3
\* number of documents held by the collection app.users of the engine
NumDocs == 3

(* Program constants.                                                      *)
StatusOK == 200
StatusBadRequest == 400
StatusInternalServerError == 500
\* ServerOptions(): FindLimit: 1000
DefaultFindLimit == 1000
\* ServerOptions(): FindMaxLimit: 0, "which means no limit"
DefaultFindMaxLimit == 0

----------------------------------------------------------------------------
(* strconv.Itoa and strconv.Atoi on sequences of characters.               *)

Digits == <<"0", "1", "2", "3", "4", "5", "6", "7", "8", "9">>

DigitChars == {Digits[i] : i \in 1..10}

DigitValue(c) == (CHOOSE i \in 1..10 : Digits[i] = c) - 1

RECURSIVE NatToString(_)
NatToString(n) ==
    IF n < 10 THEN <<Digits[n + 1]>>
    ELSE Append(NatToString(n \div 10), Digits[(n % 10) + 1])

\* strconv.Itoa: decimal text, "-" in front of a negative number
Itoa(n) == IF n < 0 THEN <<"-">> \o NatToString(-n) ELSE NatToString(n)

RECURSIVE DigitsToNat(_)
DigitsToNat(str) ==
    IF str = <<>> THEN 0
    ELSE 10 * DigitsToNat(SubSeq(str, 1, Len(str) - 1)) + DigitValue(str[Len(str)])

\* Atoi as it would be if text that is no number were read as 0
Atoi_Lenient(str) ==
    LET signed == Len(str) > 0 /\ str[1] \in {"+", "-"}
        ds     == IF signed THEN Tail(str) ELSE str
        wellFormed == Len(ds) > 0 /\ \A i \in 1..Len(ds) : ds[i] \in DigitChars
    IN  IF ~wellFormed THEN Result(0, TRUE)
        ELSE Result(IF signed /\ str[1] = "-" THEN -DigitsToNat(ds)
                    ELSE DigitsToNat(ds), TRUE)

\* strconv.Atoi: an optional sign, then one or more decimal digits;
\* anything else is an error (err # nil), and then the value is 0
Atoi(str) ==
    LET signed == Len(str) > 0 /\ str[1] \in {"+", "-"}
        ds     == IF signed THEN Tail(str) ELSE str
        wellFormed == Len(ds) > 0 /\ \A i \in 1..Len(ds) : ds[i] \in DigitChars
    IN  IF ~wellFormed THEN Result(0, FALSE)
        ELSE Result(IF signed /\ str[1] = "-" THEN -DigitsToNat(ds)
                    ELSE DigitsToNat(ds), TRUE)

----------------------------------------------------------------------------
(* Options (part_002) and NewServer (part_000:431-454).                    *)

\* ServerOptions(): the default option values; DefaultDB is left at its zero
\* value, the empty string ("no fixed database")
ServerOptions ==
    [Router       |-> "default",
     FindLimit    |-> DefaultFindLimit,
     FindMaxLimit |-> DefaultFindMaxLimit,
     DefaultDB    |-> "",
     CustomRouteName |-> "custom"]

\* values the setters are called with
RouterValues       == {"default", "new", "nil"}   \* gin.Default(), gin.New(), nil
FindLimitValues    == {1, MaxLimitValue, DefaultFindLimit}
FindMaxLimitValues == {0, MaxLimitValue - 1}
DefaultDBValues    == {"", "app"}

SetRouter(router) ==
    /\ pc = "options"
    /\ opts' = [opts EXCEPT !.Router = router]
    /\ UNCHANGED <<srv, pc, mongoClient, routes, startErr, released, logged, cur>>
    /\ UNCHANGED ext

SetDefaultDB(defaultDB) ==
    /\ pc = "options"
    /\ opts' = [opts EXCEPT !.DefaultDB = defaultDB]
    /\ UNCHANGED <<srv, pc, mongoClient, routes, startErr, released, logged, cur>>
    /\ UNCHANGED ext

SetFindLimit(findLimit) ==
    /\ pc = "options"
    /\ opts' = [opts EXCEPT !.FindLimit = findLimit]
    /\ UNCHANGED <<srv, pc, mongoClient, routes, startErr, released, logged, cur>>
    /\ UNCHANGED ext

SetFindMaxLimit(findMaxLimit) ==
    /\ pc = "options"
    /\ opts' = [opts EXCEPT !.FindMaxLimit = findMaxLimit]
    /\ UNCHANGED <<srv, pc, mongoClient, routes, startErr, released, logged, cur>>
    /\ UNCHANGED ext

\* names that SetCustomRouteName is called with
CustomRouteNames == {"/", "/api", "/custom", "api", "", "/api/"}

\* SetCustomRouteName as it would be if it stored the name before it
\* looked at it
SetCustomRouteName_StoresFirst(customRouteName) ==
    /\ pc = "options"
    /\ Len(setCalls) < MaxSetCalls
    /\ opts' = [opts EXCEPT !.CustomRouteName = customRouteName]
    /\ setCalls' = Append(setCalls,
                      Result(customRouteName,
                             ~(customRouteName = "/" \/ customRouteName = "/api")))
    /\ UNCHANGED <<srv, pc, mongoClient, routes, startErr, released, logged, cur>>
    /\ UNCHANGED <<apiHandlers, customHandlers, chain, inflight>>

\* SetCustomRouteName: "/" and "/api" are refused with
\* ErrInvalidCustomRouteName, any other name is stored and nil returned.
\* The call is recorded with its result (ok is "err == nil")
SetCustomRouteName(customRouteName) ==
    /\ pc = "options"
    /\ Len(setCalls) < MaxSetCalls
    /\ IF customRouteName = "/" \/ customRouteName = "/api"
       THEN /\ setCalls' = Append(setCalls, Result(customRouteName, FALSE))
            /\ UNCHANGED opts
       ELSE /\ opts' = [opts EXCEPT !.CustomRouteName = customRouteName]
            /\ setCalls' = Append(setCalls, Result(customRouteName, TRUE))
    /\ UNCHANGED <<srv, pc, mongoClient, routes, startErr, released, logged, cur>>
    /\ UNCHANGED <<apiHandlers, customHandlers, chain, inflight>>

----------------------------------------------------------------------------
(* Paths of route groups and routes.  gin computes them on text, so a path *)
(* is a sequence of one-character strings here, as the limit texts are.    *)

\* the relative paths that the caller adds routes with
RelativePaths == {"/appUsersCount", "/databases"}

\* the characters of a custom route name or of a relative path
Chars(str) ==
    CASE str = "custom" -> <<"c", "u", "s", "t", "o", "m">>
      [] str = "" -> <<>>
      [] str = "/" -> <<"/">>
      [] str = "/api" -> <<"/", "a", "p", "i">>
      [] str = "/custom" -> <<"/", "c", "u", "s", "t", "o", "m">>
      [] str = "api" -> <<"a", "p", "i">>
      [] str = "/api/" -> <<"/", "a", "p", "i", "/">>
      [] str = "/appUsersCount" -> <<"/", "a", "p", "p", "U", "s", "e", "r", "s", "C", "o", "u", "n", "t">>
      [] str = "/databases" -> <<"/", "d", "a", "t", "a", "b", "a", "s", "e", "s">>

\* the text without the slashes that follow a slash
RECURSIVE Squeeze(_)
Squeeze(text) ==
    IF Len(text) < 2 THEN text
    ELSE IF text[1] = "/" /\ text[2] = "/" THEN Squeeze(Tail(text))
    ELSE <<text[1]>> \o Squeeze(Tail(text))

\* path.Clean for a rooted path without "." and ".." elements: repeated
\* slashes are one, and a slash at the end goes unless the path is the root
Clean(text) ==
    LET squeezed == Squeeze(text)
    IN  IF Len(squeezed) > 1 /\ squeezed[Len(squeezed)] = "/"
        THEN SubSeq(squeezed, 1, Len(squeezed) - 1)
        ELSE squeezed

\* gin's joinPaths: the absolute path for an empty relative one, else
\* path.Join of the two, with the slash that ended the relative path put
\* back
JoinPaths(absolutePath, relativePath) ==
    IF relativePath = <<>> THEN absolutePath
    ELSE LET finalPath == Clean(absolutePath \o <<"/">> \o relativePath)
         IN  IF relativePath[Len(relativePath)] = "/"
                  /\ finalPath[Len(finalPath)] # "/"
             THEN finalPath \o <<"/">>
             ELSE finalPath

\* the base path of router.Group(relativePath) on the engine, whose own
\* base path is the root
GroupBase(str) == JoinPaths(<<"/">>, Chars(str))

\* a route path as the text that names the route in `routes`
PathText(chars) ==
    CASE chars = <<"/", "a", "p", "i", "/", "a", "p", "p", "U", "s", "e", "r", "s", "C", "o", "u", "n", "t">>
           -> "/api/appUsersCount"
      [] chars = <<"/", "a", "p", "i", "/", "d", "a", "t", "a", "b", "a", "s", "e", "s">>
           -> "/api/databases"
      [] chars = <<"/", "a", "p", "p", "U", "s", "e", "r", "s", "C", "o", "u", "n", "t">>
           -> "/appUsersCount"
      [] chars = <<"/", "c", "u", "s", "t", "o", "m", "/", "a", "p", "p", "U", "s", "e", "r", "s", "C", "o", "u", "n", "t">>
           -> "/custom/appUsersCount"
      [] chars = <<"/", "c", "u", "s", "t", "o", "m", "/", "d", "a", "t", "a", "b", "a", "s", "e", "s">>
           -> "/custom/databases"
      [] chars = <<"/", "d", "a", "t", "a", "b", "a", "s", "e", "s">>
           -> "/databases"
      [] OTHER -> "?"

\* the route that a method and a relative path make under a group
RouteOf(method, base, relativePath) ==
    method \o " " \o PathText(JoinPaths(base, Chars(relativePath)))

\* the zero value of the server struct, before NewServer has run
ZeroServer ==
    [router       |-> "nil",
     defaultDB    |-> "",
     findLimit    |-> <<>>,
     findMaxLimit |-> <<>>,
     maxLimit     |-> 0,
     customRouter |-> <<>>]

\* the struct literal NewServer returns
MakeServer(o) ==
    [router       |-> o.Router,
     defaultDB    |-> o.DefaultDB,
     findLimit    |-> Itoa(o.FindLimit),
     findMaxLimit |-> Itoa(o.FindMaxLimit),
     maxLimit     |-> o.FindMaxLimit,
     customRouter |-> GroupBase(o.CustomRouteName)]

\* router.Group("/api") on a nil router panics: no server is returned
NewServer ==
    /\ pc = "options"
    /\ IF opts.Router = "nil"
       THEN pc' = "panicked" /\ UNCHANGED srv
       ELSE pc' = "created" /\ srv' = MakeServer(opts)
    /\ UNCHANGED <<opts, mongoClient, routes, startErr, released, logged, cur>>
    /\ UNCHANGED ext

----------------------------------------------------------------------------
(* server.Start (part_000:458-491) and createRoutes (494-507).             *)

\* the deferred func as it would be if Start's result were a named one: the
\* error of Disconnect would be what Start returns
DeferredDisconnect_NamedResult(err, fails) ==
    /\ mongoClient' = "disconnected"
    /\ released' = released + 1
    /\ logged' = (logged \/ fails)
    /\ startErr' = IF fails THEN "disconnect" ELSE err

\* `return err` with the deferred func of Start pending: the result is set
\* to err, then the func runs one Disconnect; its failure is only logged,
\* for the err that the func assigns is a local, not the result
DeferredDisconnect(err, fails) ==
    /\ mongoClient' = "disconnected"
    /\ released' = released + 1
    /\ logged' = (logged \/ fails)
    /\ startErr' = err

\* StartConnect as it would be if createRoutes ran first
StartConnect_RoutesFirst(fails) ==
    /\ pc = "created"
    /\ routes' = routes \cup {"GET /", "GET /api/databases"}
    /\ IF fails
       THEN /\ pc' = "returned"
            /\ startErr' = "connect"
            /\ UNCHANGED mongoClient
       ELSE /\ pc' = "connected"
            /\ mongoClient' = "connected"
            /\ UNCHANGED startErr
    /\ UNCHANGED <<opts, srv, released, logged, cur>>
    /\ UNCHANGED ext

\* mongo.Connect; on an error Start returns it, and nothing was deferred yet
StartConnect(fails) ==
    /\ pc = "created"
    /\ IF fails
       THEN /\ pc' = "returned"
            /\ startErr' = "connect"
            /\ UNCHANGED mongoClient
       ELSE /\ pc' = "connected"
            /\ mongoClient' = "connected"
            /\ UNCHANGED startErr
    /\ UNCHANGED <<opts, srv, routes, released, logged, cur>>
    /\ UNCHANGED ext

\* s.mongoClient.Ping; on an error Start returns it and the defer runs
StartPing(fails, discFails) ==
    /\ pc = "connected"
    /\ IF fails
       THEN /\ pc' = "returned"
            /\ DeferredDisconnect("ping", discFails)
       ELSE /\ pc' = "pinged"
            /\ UNCHANGED <<startErr, mongoClient, released, logged>>
    /\ UNCHANGED <<opts, srv, routes, cur>>
    /\ UNCHANGED ext

BuiltinRoutes ==
    {"GET /", "GET /api/databases", "GET /api/collections",
     "POST /api/collections/:name/find", "POST /api/collections/:name/count",
     "POST /api/collections/:name/aggregate"}

\* the middleware that the caller can put on a group: one that lets a
\* request through or answers it itself (ctx.Abort)
Middlewares == {"auth"}

\* RouteChain as it would be if GET / were registered on the /api group
RouteChain_AllGuarded(r, api) == api

\* the middleware that a route of createRoutes is registered with: GET / is
\* put on the engine itself (s.router.GET), the others on the /api group
\* (s.apiRouter.GET / POST), which hands them the group's handlers
RouteChain(r, api) == IF r = "GET /" THEN {} ELSE api

\* the nil-router check, then createRoutes.  gin panics when a route is
\* added that the engine already has: Start does not return, and its
\* deferred func runs as the panic unwinds
StartCreateRoutes(discFails) ==
    /\ pc = "pinged"
    /\ IF srv.router = "nil"
       THEN /\ pc' = "returned"
            /\ DeferredDisconnect("router", discFails)
            /\ UNCHANGED <<routes, chain>>
       ELSE IF routes \cap BuiltinRoutes # {}
       THEN /\ pc' = "panicked"
            /\ DeferredDisconnect(startErr, discFails)
            /\ UNCHANGED <<routes, chain>>
       ELSE /\ pc' = "routed"
            /\ routes' = routes \cup BuiltinRoutes
            /\ chain' = chain \cup
                 {p \in BuiltinRoutes \X Middlewares :
                     p[2] \in RouteChain(p[1], apiHandlers)}
            /\ UNCHANGED <<startErr, mongoClient, released, logged>>
    /\ UNCHANGED <<opts, srv, cur>>
    /\ UNCHANGED <<apiHandlers, customHandlers, setCalls, inflight>>

\* s.router.Run(s.address): the listener is up and requests are served;
\* the call blocks
StartRun ==
    /\ pc = "routed"
    /\ pc' = "serving"
    /\ UNCHANGED <<opts, srv, mongoClient, routes, startErr, released, logged, cur>>
    /\ UNCHANGED ext

\* s.router.Run returns its error (it only returns on an error); Start
\* returns it and the defer runs.  Taken between two requests.
RunReturns(discFails) ==
    /\ pc = "serving"
    /\ cur = <<>>
    /\ pc' = "returned"
    /\ DeferredDisconnect("run", discFails)
    /\ UNCHANGED <<opts, srv, routes, cur>>
    /\ UNCHANGED ext

----------------------------------------------------------------------------
(* The database engine behind the mongo client.  It is not part of the     *)
(* repository: what a call returns is decided by the engine state that a   *)
(* request meets, which each handler action draws from EngineStates.       *)

DBNames == {"app", "other"}

\* dbs: the databases that exist; fail: "none", or the call that fails for
\* this request: "exec" (the operation itself) or "decode" (cursor.All)
EngineStates ==
    [dbs : {{"app"}, {"app", "other"}}, fail : {"none", "exec", "decode"}]

CollectionsOf(e, db) ==
    IF db \notin e.dbs THEN {}
    ELSE IF db = "app" THEN {"users", "orders"} ELSE {"users"}

\* documents of db.coll that match the filter: every document matches the
\* empty filter, none has a field named Aggregate
Matching(e, db, coll, filter) ==
    IF coll \notin CollectionsOf(e, db) \/ filter.keys # {} THEN 0
    ELSE IF db = "app" /\ coll = "users" THEN NumDocs
    ELSE 1

Min(a, b) == IF a < b THEN a ELSE b

\* the find limit as the engine reads it: 0 is "no limit", a negative
\* number is a limit of its absolute value
Limited(n, setLimit) ==
    IF setLimit = 0 THEN n
    ELSE IF setLimit < 0 THEN Min(n, -setLimit)
    ELSE Min(n, setLimit)

\* the error of a call on the engine, "" for none: an empty database name
\* is refused, and the engine may be failing.  The nil map that the JSON
\* text null leaves is a typed value, which the driver encodes as the empty
\* document: it is not refused, whatever the document
ExecError(e, db, doc) ==
    IF db = "" THEN "invalid database name"
    ELSE IF e.fail = "exec" THEN "engine failure"
    ELSE ""

\* the error of cursor.All, "" for none
DecodeError(e) == IF e.fail = "decode" THEN "cursor failure" ELSE ""

----------------------------------------------------------------------------
(* Requests, as gin hands them to a handler.                               *)

\* GetQuery's result for a key that the URL does not carry
Absent(zero) == Result(zero, FALSE)
Passed(v) == Result(v, TRUE)

DatabaseParams == {Absent("")} \cup {Passed(d) : d \in {"", "app", "other"}}

\* the name path parameter
NameParams == {"", "users"}

\* limit texts: the integers -1 .. MaxLimitValue as Itoa writes them, and a
\* few that Itoa never writes: empty, not a number, signed, zero-padded
LimitTexts ==
    {Itoa(n) : n \in -1..MaxLimitValue}
        \cup {<<>>, <<"x">>, <<"+", "1">>, <<"0", "2">>}

LimitParams == {Absent(<<>>)} \cup {Passed(l) : l \in LimitTexts}

\* request bodies, as raw text
Bodies == {"{", "null", "{}", "{\"Aggregate\":1}", "{\"Aggregate\":[]}"}

\* ctx.ShouldBindJSON / ctx.ShouldBind of a JSON body into a map
ShouldBindJSON(body) ==
    IF body = "null" THEN Decoded(FALSE, TRUE, {}, "none")
    ELSE IF body = "{}" THEN Decoded(FALSE, FALSE, {}, "none")
    ELSE IF body = "{\"Aggregate\":1}"
        THEN Decoded(FALSE, FALSE, {"Aggregate"}, "number")
    ELSE IF body = "{\"Aggregate\":[]}"
        THEN Decoded(FALSE, FALSE, {"Aggregate"}, "array")
    ELSE Decoded(TRUE, TRUE, {}, "none")

----------------------------------------------------------------------------
(* What a handler leaves behind: the response and the engine calls.        *)

NoBody == Json("none", {}, 0)

\* a response written by the handler itself
Response(status, msg, errText, json) ==
    FullResponse(status, msg, errText, json, FALSE)

\* ctx.String(status, msg) with no engine call made
Reject(status, msg) == Outcome(Response(status, msg, "", NoBody), <<>>)

\* the argument of a call that takes no document
NoDoc == Decoded(FALSE, FALSE, {}, "none")

\* a panic inside a handler: gin.Default() carries the Recovery middleware,
\* which answers 500; on an engine without it net/http drops the connection
\* and the client gets no response (status 0)
Panic(s) ==
    Outcome(FullResponse(IF s.router = "default"
                             THEN StatusInternalServerError ELSE 0,
                         "", "interface conversion", NoBody, TRUE),
            <<>>)

----------------------------------------------------------------------------
(* The handlers (part_000:522-748).                                        *)

\* ResolveDB as it would be if the presence of the parameter went unchecked
ResolveDB_IgnoresOk(s, q) ==
    IF s.defaultDB = ""
    THEN Resolved(q.database.value, TRUE)
    ELSE Resolved(s.defaultDB, TRUE)

\* ResolveDB as it would be if a passed database won over the fixed one
ResolveDB_QueryFirst(s, q) ==
    IF q.database.ok THEN Resolved(q.database.value, TRUE)
    ELSE IF s.defaultDB # "" THEN Resolved(s.defaultDB, TRUE)
    ELSE Resolved("", FALSE)

\* the database name of a request: the block that opens getCollections,
\* collectionFind, collectionCount and collectionAggregate alike
ResolveDB(s, q) ==
    IF s.defaultDB = ""
    THEN Resolved(q.database.value, q.database.ok)
    ELSE Resolved(s.defaultDB, TRUE)

\* MissingCollName as it would be if the check were left out
MissingCollName_Never(collName) == FALSE

\* collName == "": "Collection name was not passed"
MissingCollName(collName) == collName = ""

\* LimitString as it would be if the built-in default stood in for the
\* configured one
LimitString_BuiltinDefault(s, q) ==
    IF q.limit.ok THEN q.limit.value ELSE Itoa(DefaultFindLimit)

\* ctx.DefaultQuery("limit", s.findLimit)
LimitString(s, q) == IF q.limit.ok THEN q.limit.value ELSE s.findLimit

\* OverMaxLimit as it would be if the maximum itself were refused
OverMaxLimit_Inclusive(s, limit) == s.maxLimit # 0 /\ limit >= s.maxLimit

\* the max limit check of collectionFind
OverMaxLimit(s, limit) == s.maxLimit # 0 /\ limit > s.maxLimit

\* reqBody["Aggregate"].([]interface{}): the one-value type assertion
\* panics unless the value under the key is a sequence
PipelineAssertionPanics(reqBody) == reqBody.aggregate # "array"

\* getDatabases as it would be if it asked the engine whatever is configured
getDatabases_AlwaysAsks(s, e, q) ==
    LET call   == Call("ListDatabaseNames", "", "", 0, NoDoc)
        failed == IF e.fail = "exec" THEN "engine failure" ELSE ""
    IN  Outcome(IF failed # ""
                THEN Response(StatusInternalServerError,
                         "Error getting databases names: %s", failed, NoBody)
                ELSE Response(StatusOK, "", "", Json("Databases", e.dbs, 0)),
                <<call>>)

\* getDatabases as it would be if it demanded a database name as the other
\* handlers do
getDatabases_NeedsDB(s, e, q) ==
    IF s.defaultDB # ""
    THEN Outcome(Response(StatusOK, "", "", Json("Databases", {s.defaultDB}, 0)),
                 <<>>)
    ELSE IF ~q.database.ok
    THEN Reject(StatusBadRequest, "Database name was not passed, one is needed")
    ELSE getDatabases_AlwaysAsks(s, e, q)

getDatabases(s, e, q) ==
    IF s.defaultDB # ""
    THEN Outcome(Response(StatusOK, "", "", Json("Databases", {s.defaultDB}, 0)),
                 <<>>)
    ELSE LET call   == Call("ListDatabaseNames", "", "", 0, NoDoc)
             failed == IF e.fail = "exec" THEN "engine failure" ELSE ""
         IN  Outcome(IF failed # ""
                     THEN Response(StatusInternalServerError,
                              "Error getting databases names: %s", failed, NoBody)
                     ELSE Response(StatusOK, "", "", Json("Databases", e.dbs, 0)),
                     <<call>>)

\* getCollections as it would be if it asked the engine before it looked at
\* the database name
getCollections_CallsFirst(s, e, q) ==
    LET target == ResolveDB(s, q)
        call   == Call("ListCollectionNames", target.dbName, "", 0, NoDoc)
        failed == ExecError(e, target.dbName, NoDoc)
    IN  IF ~target.found
        THEN Outcome(Response(StatusBadRequest,
                         "Database name was not passed, one is needed",
                         "", NoBody),
                     <<call>>)
        ELSE Outcome(IF failed # ""
                     THEN Response(StatusInternalServerError,
                              "Error getting collection names: %s", failed, NoBody)
                     ELSE Response(StatusOK, "", "",
                              Json("Collections",
                                   CollectionsOf(e, target.dbName), 0)),
                     <<call>>)

getCollections(s, e, q) ==
    LET target == ResolveDB(s, q) IN
    IF ~target.found
    THEN Reject(StatusBadRequest, "Database name was not passed, one is needed")
    ELSE LET call   == Call("ListCollectionNames", target.dbName, "", 0, NoDoc)
             failed == ExecError(e, target.dbName, NoDoc)
         IN  Outcome(IF failed # ""
                     THEN Response(StatusInternalServerError,
                              "Error getting collection names: %s", failed, NoBody)
                     ELSE Response(StatusOK, "", "",
                              Json("Collections",
                                   CollectionsOf(e, target.dbName), 0)),
                     <<call>>)

\* collectionFind as it would be if the maximum were checked only against
\* a limit that the request itself passed
collectionFind_MaxOnPassed(s, e, q) ==
    LET target == ResolveDB(s, q)
        parsed == Atoi(LimitString(s, q))
        filter == ShouldBindJSON(q.body)
    IN
    IF ~target.found
    THEN Reject(StatusBadRequest, "Database name was not passed, one is needed")
    ELSE IF MissingCollName(q.name)
    THEN Reject(StatusBadRequest, "Collection name was not passed")
    ELSE IF ~parsed.ok
    THEN Reject(StatusBadRequest, "Limit is not an int: %s")
    ELSE IF q.limit.ok /\ OverMaxLimit(s, parsed.value)
    THEN Reject(StatusBadRequest,
             "Passed limit is greater than max limit set by server")
    ELSE IF filter.err
    THEN Reject(StatusBadRequest, "Error reading body request: %s")
    ELSE LET call    == Call("Find", target.dbName, q.name, parsed.value, filter)
             failed  == ExecError(e, target.dbName, filter)
             undone  == DecodeError(e)
             matched == Matching(e, target.dbName, q.name, filter)
         IN  Outcome(IF failed # ""
                     THEN Response(StatusInternalServerError,
                              "Error running find: %s", failed, NoBody)
                     ELSE IF undone # ""
                     THEN Response(StatusInternalServerError,
                              "Error decoding results: %s", undone, NoBody)
                     ELSE Response(StatusOK, "", "",
                              Json("documents", {},
                                   Limited(matched, parsed.value))),
                     <<call>>)

collectionFind(s, e, q) ==
    LET target == ResolveDB(s, q)
        parsed == Atoi(LimitString(s, q))
        filter == ShouldBindJSON(q.body)
    IN
    IF ~target.found
    THEN Reject(StatusBadRequest, "Database name was not passed, one is needed")
    ELSE IF MissingCollName(q.name)
    THEN Reject(StatusBadRequest, "Collection name was not passed")
    ELSE IF ~parsed.ok
    THEN Reject(StatusBadRequest, "Limit is not an int: %s")
    ELSE IF OverMaxLimit(s, parsed.value)
    THEN Reject(StatusBadRequest,
             "Passed limit is greater than max limit set by server")
    ELSE IF filter.err
    THEN Reject(StatusBadRequest, "Error reading body request: %s")
    ELSE LET call    == Call("Find", target.dbName, q.name, parsed.value, filter)
             failed  == ExecError(e, target.dbName, filter)
             undone  == DecodeError(e)
             matched == Matching(e, target.dbName, q.name, filter)
         IN  Outcome(IF failed # ""
                     THEN Response(StatusInternalServerError,
                              "Error running find: %s", failed, NoBody)
                     ELSE IF undone # ""
                     THEN Response(StatusInternalServerError,
                              "Error decoding results: %s", undone, NoBody)
                     ELSE Response(StatusOK, "", "",
                              Json("documents", {},
                                   Limited(matched, parsed.value))),
                     <<call>>)

collectionCount(s, e, q) ==
    LET target == ResolveDB(s, q)
        filter == ShouldBindJSON(q.body)
    IN
    IF ~target.found
    THEN Reject(StatusBadRequest, "Database name was not passed, one is needed")
    ELSE IF MissingCollName(q.name)
    THEN Reject(StatusBadRequest, "Collection name was not passed")
    ELSE IF filter.err
    THEN Reject(StatusBadRequest, "Error reading body request: %s")
    ELSE LET call   == Call("CountDocuments", target.dbName, q.name, 0, filter)
             failed == ExecError(e, target.dbName, filter)
         IN  Outcome(IF failed # ""
                     THEN Response(StatusInternalServerError,
                              "Error running find: %s", failed, NoBody)
                     ELSE Response(StatusOK, "", "",
                              Json("Count", {},
                                   Matching(e, target.dbName, q.name, filter))),
                     <<call>>)

collectionAggregate(s, e, q) ==
    LET target  == ResolveDB(s, q)
        reqBody == ShouldBindJSON(q.body)
    IN
    IF ~target.found
    THEN Reject(StatusBadRequest, "Database name was not passed, one is needed")
    ELSE IF MissingCollName(q.name)
    THEN Reject(StatusBadRequest, "Collection name was not passed")
    ELSE IF reqBody.err
    THEN Reject(StatusBadRequest, "Error reading body request: %s")
    ELSE IF PipelineAssertionPanics(reqBody)
    THEN Panic(s)
    ELSE LET call   == Call("Aggregate", target.dbName, q.name, 0, reqBody)
             failed == ExecError(e, target.dbName, reqBody)
             undone == DecodeError(e)
         IN  Outcome(IF failed # ""
                     THEN Response(StatusInternalServerError,
                              "Error running aggregate: %s", failed, NoBody)
                     ELSE IF undone # ""
                     THEN Response(StatusInternalServerError,
                              "Error decoding results: %s", undone, NoBody)
                     ELSE Response(StatusOK, "", "",
                              Json("documents", {},
                                   IF q.name \in CollectionsOf(e, target.dbName)
                                   THEN 1 ELSE 0)),
                     <<call>>)

\* GET /: ctx.Status(http.StatusOK)
rootProbe(s, e, q) == Outcome(Response(StatusOK, "", "", NoBody), <<>>)

\* the handler that createRoutes registers for a route
Handle(s, e, q) ==
    CASE q.route = "GET /" -> rootProbe(s, e, q)
      [] q.route = "GET /api/databases" -> getDatabases(s, e, q)
      [] q.route = "GET /api/collections" -> getCollections(s, e, q)
      [] q.route = "POST /api/collections/:name/find" -> collectionFind(s, e, q)
      [] q.route = "POST /api/collections/:name/count" -> collectionCount(s, e, q)
      [] q.route = "POST /api/collections/:name/aggregate"
            -> collectionAggregate(s, e, q)

\* a request is routed to its handler, which runs to its end
Serve(q, e) ==
    /\ pc = "serving"
    /\ cur = <<>>
    /\ q.route \in routes
    /\ cur' = <<Handling(q, e, Handle(srv, e, q))>>
    /\ UNCHANGED <<opts, srv, pc, mongoClient, routes, startErr, released, logged>>
    /\ UNCHANGED ext

ServeRoot ==
    \E e \in EngineStates :
        Serve(Request("GET /", Absent(""), "", Absent(<<>>), ""), e)

ServeGetDatabases ==
    \E e \in EngineStates, d \in DatabaseParams :
        Serve(Request("GET /api/databases", d, "", Absent(<<>>), ""), e)

ServeGetCollections ==
    \E e \in EngineStates, d \in DatabaseParams :
        Serve(Request("GET /api/collections", d, "", Absent(<<>>), ""), e)

ServeCollectionFind ==
    \E e \in EngineStates, d \in DatabaseParams, name \in NameParams,
       l \in LimitParams, b \in Bodies :
        Serve(Request("POST /api/collections/:name/find", d, name, l, b), e)

ServeCollectionCount ==
    \E e \in EngineStates, d \in DatabaseParams, name \in NameParams,
       b \in Bodies :
        Serve(Request("POST /api/collections/:name/count", d, name,
                      Absent(<<>>), b), e)

ServeCollectionAggregate ==
    \E e \in EngineStates, d \in DatabaseParams, name \in NameParams,
       b \in Bodies :
        Serve(Request("POST /api/collections/:name/aggregate", d, name,
                      Absent(<<>>), b), e)

\* the handler has returned and gin takes the context back
Finish ==
    /\ cur # <<>>
    /\ cur' = <<>>
    /\ UNCHANGED <<opts, srv, pc, mongoClient, routes, startErr, released, logged>>
    /\ UNCHANGED ext

----------------------------------------------------------------------------
(* The extension points: middleware on the /api group, routes of the       *)
(* caller on the custom group, and the client handed to their handlers     *)
(* (part_000:509-519, 750-764).                                            *)

\* s.apiRouter.Use(middleware...), called between NewServer and Start
SetAPIMiddleware(m) ==
    /\ pc = "created"
    /\ apiHandlers' = apiHandlers \cup {m}
    /\ UNCHANGED <<opts, srv, pc, mongoClient, routes, startErr, released,
                   logged, cur, customHandlers, chain, setCalls, inflight>>

\* the handle as it was when the route was added, before Start
GetMongoClient_AtRegistration == "nil"

\* GetMongoClient: return s.mongoClient
GetMongoClient == mongoClient

\* the route of the package's example, under the custom group with its
\* default name
CustomRoute == "GET /custom/appUsersCount"

\* the handler of the package's example: it fetches the client inside the
\* handler and counts the documents of app.users with it.  A nil client
\* panics at client.Database, a disconnected one returns an error
appUsersCount(s, e, q) ==
    IF GetMongoClient = "nil" THEN Panic(s)
    ELSE LET call   == Call("CountDocuments", "app", "users", 0, NoDoc)
             failed == IF GetMongoClient = "disconnected"
                       THEN "client is disconnected"
                       ELSE ExecError(e, "app", NoDoc)
         IN  Outcome(IF failed # ""
                     THEN Response(StatusInternalServerError,
                              "Error running count: ", failed, NoBody)
                     ELSE Response(StatusOK, "", "",
                              Json("Count", {},
                                   Matching(e, "app", "users", NoDoc))),
                     <<call>>)

\* SetCustomMiddleware as it would be if the middleware were also put
\* before the routes that the group already has
SetCustomMiddleware_Retroactive(m) ==
    /\ pc = "created"
    /\ customHandlers' = customHandlers \cup {m}
    /\ chain' = chain \cup {<<r, m>> : r \in routes}
    /\ UNCHANGED <<opts, srv, pc, mongoClient, routes, startErr, released,
                   logged, cur, apiHandlers, setCalls, inflight>>

\* s.customRouter.Use(middleware...), called between NewServer and Start
SetCustomMiddleware(m) ==
    /\ pc = "created"
    /\ customHandlers' = customHandlers \cup {m}
    /\ UNCHANGED <<opts, srv, pc, mongoClient, routes, startErr, released,
                   logged, cur, apiHandlers, chain, setCalls, inflight>>

\* group.handle, which GET and POST of a group come to: the route is added
\* to the engine at once, with the handlers that the group has at this
\* moment before the route's own.  gin panics on a route that the engine
\* already has
AddCustom(method, relativePath) ==
    /\ pc = "created"
    /\ LET route == RouteOf(method, srv.customRouter, relativePath)
       IN  IF route \in routes
           THEN pc' = "panicked" /\ UNCHANGED <<routes, chain>>
           ELSE /\ routes' = routes \cup {route}
                /\ chain' = chain \cup {<<route, m>> : m \in customHandlers}
                /\ UNCHANGED pc
    /\ UNCHANGED <<opts, srv, mongoClient, startErr, released, logged,
                   cur, apiHandlers, customHandlers, setCalls, inflight>>

\* s.customRouter.GET(relativePath, handlers...), called between NewServer
\* and Start
AddCustomGET(relativePath) == AddCustom("GET", relativePath)

\* s.customRouter.POST(relativePath, handlers...)
AddCustomPOST(relativePath) == AddCustom("POST", relativePath)

\* the routes that the caller can have added
CustomRoutes ==
    {RouteOf(method, GroupBase(name), rel) :
        method \in {"GET", "POST"},
        name \in (CustomRouteNames \cup {ServerOptions.CustomRouteName})
                    \ {"/", "/api"},
        rel \in RelativePaths}

\* a request to a route of the caller: gin runs its handler, here the one
\* of the package's example
ServeCustom(r) ==
    /\ pc = "serving"
    /\ cur = <<>>
    /\ r \in routes \ BuiltinRoutes
    /\ \E e \in EngineStates :
         LET q == Request(r, Absent(""), "", Absent(<<>>), "")
         IN  cur' = <<Handling(q, e, appUsersCount(srv, e, q))>>
    /\ UNCHANGED <<opts, srv, pc, mongoClient, routes, startErr, released,
                   logged, apiHandlers, customHandlers, chain,
                   setCalls, inflight>>

\* a middleware of the route's chain answers the request itself and aborts:
\* the handler does not run
Abort(r, m) ==
    /\ pc = "serving"
    /\ cur = <<>>
    /\ r \in routes
    /\ <<r, m>> \in chain
    /\ \E e \in EngineStates :
         /\ e.fail = "none" /\ e.dbs = {"app"}
         /\ cur' = <<Handling(Request(r, Absent(""), "", Absent(<<>>), ""), e,
                       Outcome(Response(401, m, "", NoBody), <<>>))>>
    /\ UNCHANGED <<opts, srv, pc, mongoClient, routes, startErr, released,
                   logged, apiHandlers, customHandlers, chain,
                   setCalls, inflight>>

----------------------------------------------------------------------------
(* The handlers as the goroutines of concurrent requests run them.  A      *)
(* handler reads the server struct when it validates the request and again *)
(* when it builds and makes its engine call; other goroutines run between. *)
(* inflight[g] is <<"idle">>, <<"accepted", request>>, <<"calling",        *)
(* request>> or <<"done", what was handled>>.                              *)

\* the requests that arrive concurrently
ConcRequests ==
    {Request("POST /api/collections/:name/find", d, "users", l, "{}") :
        d \in {Absent(""), Passed("app")},
        l \in {Absent(<<>>), Passed(Itoa(MaxLimitValue))}}
    \cup {Request("GET /api/collections", d, "", Absent(<<>>), "") :
            d \in {Absent(""), Passed("app")}}
    \cup {Request("GET /api/databases", Absent(""), "", Absent(<<>>), "")}

\* the engine states that their calls meet
ConcEngines == {e \in EngineStates : e.dbs = {"app"} /\ e.fail # "decode"}

\* the engine state recorded for a request that made no call
Untouched == CHOOSE e \in ConcEngines : e.fail = "none"

\* gin hands the request to its handler in goroutine g
Accept(g, q) ==
    /\ pc = "serving"
    /\ inflight[g] = <<"idle">>
    /\ q.route \in routes
    /\ inflight' = [inflight EXCEPT ![g] = <<"accepted", q>>]
    /\ UNCHANGED <<opts, srv, pc, mongoClient, routes, startErr, released,
                   logged, cur, apiHandlers, customHandlers, chain,
                   setCalls>>

\* Validate as it would be if the handler kept the database it resolved in
\* the server struct
Validate_KeepsDB(g) ==
    /\ inflight[g][1] = "accepted"
    /\ LET q == inflight[g][2]
           o == Handle(srv, Untouched, q)
       IN  /\ inflight' = [inflight EXCEPT
                 ![g] = IF o.calls = <<>>
                        THEN <<"done", Handling(q, Untouched, o)>>
                        ELSE <<"calling", q>>]
           /\ srv' = IF q.route \in {"GET /api/collections",
                                     "POST /api/collections/:name/find"}
                        /\ ResolveDB(srv, q).found
                     THEN [srv EXCEPT !.defaultDB = ResolveDB(srv, q).dbName]
                     ELSE srv
    /\ UNCHANGED <<opts, pc, mongoClient, routes, startErr, released,
                   logged, cur, apiHandlers, customHandlers, chain,
                   setCalls>>

\* the handler's checks, up to its engine call: it answers by itself when
\* it makes none
Validate(g) ==
    /\ inflight[g][1] = "accepted"
    /\ LET q == inflight[g][2]
           o == Handle(srv, Untouched, q)
       IN  inflight' = [inflight EXCEPT
              ![g] = IF o.calls = <<>>
                     THEN <<"done", Handling(q, Untouched, o)>>
                     ELSE <<"calling", q>>]
    /\ UNCHANGED <<opts, srv, pc, mongoClient, routes, startErr, released,
                   logged, cur, apiHandlers, customHandlers, chain,
                   setCalls>>

\* the engine call and the answer made from its result
Execute(g, e) ==
    /\ inflight[g][1] = "calling"
    /\ LET q == inflight[g][2]
       IN  inflight' = [inflight EXCEPT
              ![g] = <<"done", Handling(q, e, Handle(srv, e, q))>>]
    /\ UNCHANGED <<opts, srv, pc, mongoClient, routes, startErr, released,
                   logged, cur, apiHandlers, customHandlers, chain,
                   setCalls>>

\* the handler has returned
Respond(g) ==
    /\ inflight[g][1] = "done"
    /\ inflight' = [inflight EXCEPT ![g] = <<"idle">>]
    /\ UNCHANGED <<opts, srv, pc, mongoClient, routes, startErr, released,
                   logged, cur, apiHandlers, customHandlers, chain,
                   setCalls>>

----------------------------------------------------------------------------

Init ==
    /\ opts = ServerOptions
    /\ srv = ZeroServer
    /\ pc = "options"
    /\ mongoClient = "nil"
    /\ routes = {}
    /\ startErr = "none"
    /\ released = 0
    /\ logged = FALSE
    /\ cur = <<>>
    /\ apiHandlers = {}
    /\ customHandlers = {}
    /\ chain = {}
    /\ setCalls = <<>>
    /\ inflight = [g \in Goroutines |-> <<"idle">>]

Next ==
    \/ \E r \in RouterValues : SetRouter(r)
    \/ \E d \in DefaultDBValues : SetDefaultDB(d)
    \/ \E n \in FindLimitValues : SetFindLimit(n)
    \/ \E n \in FindMaxLimitValues : SetFindMaxLimit(n)
    \/ NewServer
    \/ \E f \in BOOLEAN : StartConnect(f)
    \/ \E f \in BOOLEAN, df \in BOOLEAN : StartPing(f, df)
    \/ \E df \in BOOLEAN : StartCreateRoutes(df)
    \/ StartRun
    \/ \E df \in BOOLEAN : RunReturns(df)
    \/ ServeRoot
    \/ ServeGetDatabases
    \/ ServeGetCollections
    \/ ServeCollectionFind
    \/ ServeCollectionCount
    \/ ServeCollectionAggregate
    \/ Finish

Spec == Init /\ [][Next]_vars

\* the server with its extension points in play: the options that the
\* routes without a body depend on, middleware on the /api group, a route
\* of the caller, and requests to the routes that take no body
NextExt ==
    \/ \E r \in RouterValues : SetRouter(r)
    \/ \E d \in DefaultDBValues : SetDefaultDB(d)
    \/ NewServer
    \/ \E m \in Middlewares : SetAPIMiddleware(m)
    \/ \E m \in Middlewares : SetCustomMiddleware(m)
    \/ AddCustomGET("/appUsersCount")
    \/ AddCustomPOST("/appUsersCount")
    \/ \E f \in BOOLEAN : StartConnect(f)
    \/ \E f \in BOOLEAN, df \in BOOLEAN : StartPing(f, df)
    \/ \E df \in BOOLEAN : StartCreateRoutes(df)
    \/ StartRun
    \/ \E df \in BOOLEAN : RunReturns(df)
    \/ ServeRoot
    \/ ServeGetDatabases
    \/ ServeGetCollections
    \/ \E r \in CustomRoutes : ServeCustom(r)
    \/ \E r \in BuiltinRoutes \cup CustomRoutes, m \in Middlewares : Abort(r, m)
    \/ Finish

SpecExt == Init /\ [][NextExt]_vars

\* the server under concurrent requests
NextConc ==
    \/ \E d \in DefaultDBValues : SetDefaultDB(d)
    \/ \E n \in FindLimitValues : SetFindLimit(n)
    \/ \E n \in FindMaxLimitValues : SetFindMaxLimit(n)
    \/ NewServer
    \/ \E f \in BOOLEAN : StartConnect(f)
    \/ \E f \in BOOLEAN, df \in BOOLEAN : StartPing(f, df)
    \/ \E df \in BOOLEAN : StartCreateRoutes(df)
    \/ StartRun
    \/ \E g \in Goroutines, q \in ConcRequests : Accept(g, q)
    \/ \E g \in Goroutines : Validate(g)
    \/ \E g \in Goroutines, e \in ConcEngines : Execute(g, e)
    \/ \E g \in Goroutines : Respond(g)

SpecConc == Init /\ [][NextConc]_vars

\* the custom group under every name that the caller can give it: the
\* name is set, the server is made, routes are added and Start is run
NextCustom ==
    \/ \E c \in CustomRouteNames : SetCustomRouteName(c)
    \/ NewServer
    \/ \E rel \in RelativePaths : AddCustomGET(rel)
    \/ \E f \in BOOLEAN : StartConnect(f)
    \/ \E f \in BOOLEAN, df \in BOOLEAN : StartPing(f, df)
    \/ \E df \in BOOLEAN : StartCreateRoutes(df)
    \/ StartRun

SpecCustom == Init /\ [][NextCustom]_vars

\* the Options value alone, under every sequence of setter calls
NextOptions ==
    \/ \E r \in RouterValues : SetRouter(r)
    \/ \E d \in DefaultDBValues : SetDefaultDB(d)
    \/ \E n \in FindLimitValues : SetFindLimit(n)
    \/ \E n \in FindMaxLimitValues : SetFindMaxLimit(n)
    \/ \E c \in CustomRouteNames : SetCustomRouteName(c)

SpecOptions == Init /\ [][NextOptions]_vars

----------------------------------------------------------------------------
(* Vocabulary of the claims.                                               *)

Handled == cur # <<>>
Req   == cur[1].req
Eng   == cur[1].eng
Resp  == cur[1].out.resp
Calls == cur[1].out.calls

FindRoute      == "POST /api/collections/:name/find"
CountRoute     == "POST /api/collections/:name/count"
AggregateRoute == "POST /api/collections/:name/aggregate"

\* the operations that take a database name by the rule of section 4.1
NamedDBRoutes == {"GET /api/collections", FindRoute, CountRoute, AggregateRoute}
FiveRoutes    == NamedDBRoutes \cup {"GET /api/databases"}

NoDatabaseMsg == "Database name was not passed, one is needed"
OverMaxMsg    == "Passed limit is greater than max limit set by server"

\* the request names a database: a fixed one is configured or one is passed
HasDatabase == opts.DefaultDB # "" \/ Req.database.ok

\* the integers a limit can stand for in this model
LimitInts == (-1..MaxLimitValue) \cup FindLimitValues

\* the limit a find request asks for is n: the number it passes, as decimal
\* text, or the configured default when it passes none
AsksLimit(n) ==
    IF Req.limit.ok THEN Req.limit.value = Itoa(n) ELSE n = opts.FindLimit

----------------------------------------------------------------------------
(* C1.  With no fixed database configured, a list-collections, find, count *)
(* or aggregate request that carries no database query parameter is        *)
(* answered 400 "Database name was not passed, one is needed", and no call *)
(* to the database client is made for it.                                  *)
C1_NoDatabaseRejected ==
    (Handled /\ opts.DefaultDB = "" /\ Req.route \in NamedDBRoutes
        /\ ~Req.database.ok)
    => /\ Resp.status = StatusBadRequest
       /\ Resp.msg = NoDatabaseMsg
       /\ Calls = <<>>

\* a count request with a collection name and a sound body, but no database
C1_Witness ==
    /\ Handled /\ opts.DefaultDB = "" /\ Req.route = CountRoute
    /\ ~Req.database.ok /\ Req.name = "users" /\ Req.body = "{}"
    /\ Resp.status = StatusBadRequest

(* C2.  With a fixed database configured the database query parameter is   *)
(* ignored: every engine call of the request names the fixed database, and *)
(* the same request with any other database parameter (or none), meeting   *)
(* the same engine, gets the same response and makes the same calls.       *)
C2_FixedDBIgnoresQuery ==
    (Handled /\ opts.DefaultDB # "" /\ Req.route \in FiveRoutes)
    => /\ \A i \in DOMAIN Calls :
            Calls[i].fn # "ListDatabaseNames" => Calls[i].db = opts.DefaultDB
       /\ \A d \in DatabaseParams :
            Handle(srv, Eng, [Req EXCEPT !.database = d]) = cur[1].out

\* a find that passes another database than the fixed one and is answered
\* with the documents of the fixed one
C2_Witness ==
    /\ Handled /\ opts.DefaultDB = "app" /\ Req.route = FindRoute
    /\ Req.database = Passed("other")
    /\ Resp.status = StatusOK /\ Resp.json.count = NumDocs
    /\ Len(Calls) = 1

(* C3.  With a fixed database configured, list-databases answers 200 with  *)
(* exactly the fixed name, whatever databases the engine holds and whether *)
(* or not it is failing, and makes no engine call.                         *)
C3_FixedDBListsOnlyItself ==
    (Handled /\ opts.DefaultDB # "" /\ Req.route = "GET /api/databases")
    => /\ Resp.status = StatusOK
       /\ Resp.json = Json("Databases", {opts.DefaultDB}, 0)
       /\ Calls = <<>>

\* the engine holds a second database and is failing
C3_Witness ==
    /\ Handled /\ opts.DefaultDB = "app" /\ Req.route = "GET /api/databases"
    /\ Eng.dbs = {"app", "other"} /\ Eng.fail = "exec"
    /\ Resp.status = StatusOK

(* C4 as stated.  For every one of the five operations, list-databases     *)
(* included, a request that names no database when no fixed database is    *)
(* configured is answered 400.                                             *)
C4_AsStated ==
    (Handled /\ opts.DefaultDB = "" /\ Req.route \in FiveRoutes
        /\ ~Req.database.ok)
    => Resp.status = StatusBadRequest

(* C4, amended.  The database-name rule binds list-collections, find,      *)
(* count and aggregate only.  List-databases takes no database name: with  *)
(* no fixed database configured it asks the engine for the database names  *)
(* once and answers 200 with them, or 500 when that call fails, and never  *)
(* 400, whether or not a database parameter is passed.                     *)
C4_RuleSparesListDatabases ==
    (Handled /\ opts.DefaultDB = "" /\ Req.route \in FiveRoutes)
    => IF Req.route = "GET /api/databases"
       THEN /\ Len(Calls) = 1 /\ Calls[1].fn = "ListDatabaseNames"
            /\ Resp.status \in {StatusOK, StatusInternalServerError}
            /\ Resp.status = StatusOK
                 => Resp.json = Json("Databases", Eng.dbs, 0)
       ELSE ~Req.database.ok => Resp.status = StatusBadRequest

\* list-databases with no database named and none configured, answered 200
C4_Witness ==
    /\ Handled /\ opts.DefaultDB = "" /\ Req.route = "GET /api/databases"
    /\ ~Req.database.ok
    /\ Resp.status = StatusOK /\ Resp.json.names = {"app", "other"}

(* C5.  A find request whose limit exceeds a nonzero configured maximum is *)
(* answered 400 with no engine call, with the message "Passed limit is     *)
(* greater than max limit set by server" once its database and collection  *)
(* names are there; a limit equal to the maximum, or any limit when the    *)
(* maximum is 0, is not rejected by this check.                            *)
C5_MaxLimitCheck ==
    (Handled /\ Req.route = FindRoute)
    => \A n \in LimitInts :
        AsksLimit(n) =>
            IF opts.FindMaxLimit # 0 /\ n > opts.FindMaxLimit
            THEN /\ Resp.status = StatusBadRequest
                 /\ Calls = <<>>
                 /\ (HasDatabase /\ Req.name # "") => Resp.msg = OverMaxMsg
            ELSE /\ Resp.msg # OverMaxMsg
                 /\ (HasDatabase /\ Req.name # "" /\ Req.body = "{}")
                        => Len(Calls) = 1

\* a passed limit one above the maximum is rejected by the check
C5_Witness ==
    /\ Handled /\ Req.route = FindRoute /\ opts.FindMaxLimit # 0
    /\ Req.limit = Passed(Itoa(opts.FindMaxLimit + 1))
    /\ Resp.status = StatusBadRequest /\ Resp.msg = OverMaxMsg

(* C6 as stated.  FindMaxLimit is an upper limit on the number of records  *)
(* find can return: when it is nonzero, every find answered 200 was issued *)
(* to the engine with a limit L, 1 <= L <= FindMaxLimit, whatever integer  *)
(* the limit parameter holds.                                              *)
C6_AsStated ==
    (Handled /\ Req.route = FindRoute /\ opts.FindMaxLimit # 0
        /\ Resp.status = StatusOK)
    => \A i \in DOMAIN Calls :
        Calls[i].setLimit >= 1 /\ Calls[i].setLimit <= opts.FindMaxLimit

(* C7 as stated.  An aggregate request whose JSON body lacks the Aggregate *)
(* key, or holds under it a value that is not a sequence, is answered with *)
(* a clean 400: no runtime fault, no engine call.                          *)
C7_AsStated ==
    (Handled /\ Req.route = AggregateRoute /\ HasDatabase /\ Req.name # ""
        /\ Req.body \in {"{}", "{\"Aggregate\":1}"})
    => /\ Resp.status = StatusBadRequest
       /\ ~Resp.fault
       /\ Calls = <<>>

(* C8.  A find, count or aggregate request with an empty collection name   *)
(* is answered 400 and makes no engine call.                               *)
C8_MissingCollectionRejected ==
    (Handled /\ Req.route \in {FindRoute, CountRoute, AggregateRoute}
        /\ Req.name = "")
    => /\ Resp.status = StatusBadRequest
       /\ Calls = <<>>
       /\ HasDatabase => Resp.msg = "Collection name was not passed"

\* an aggregate with a database and a sound pipeline, but no collection name
C8_Witness ==
    /\ Handled /\ Req.route = AggregateRoute /\ Req.name = ""
    /\ Req.database = Passed("app") /\ Req.body = "{\"Aggregate\":[]}"
    /\ Resp.status = StatusBadRequest
    /\ Resp.msg = "Collection name was not passed"

(* C9.  A find request that reaches the engine without a limit parameter   *)
(* is issued with the configured default limit (FindLimit, 1000 unless     *)
(* changed); one that passes an integer is issued with that integer.       *)
C9_DefaultLimit ==
    (Handled /\ Req.route = FindRoute /\ Calls # <<>>)
    => /\ Len(Calls) = 1
       /\ ~Req.limit.ok => Calls[1].setLimit = opts.FindLimit
       /\ \A n \in LimitInts :
            Req.limit = Passed(Itoa(n)) => Calls[1].setLimit = n
       /\ Req.limit = Passed(<<"+", "1">>) => Calls[1].setLimit = 1
       /\ Req.limit = Passed(<<"0", "2">>) => Calls[1].setLimit = 2

\* no limit passed, a default that was changed, and the find issued with it
C9_Witness ==
    /\ Handled /\ Req.route = FindRoute /\ ~Req.limit.ok
    /\ opts.FindLimit # DefaultFindLimit
    /\ Len(Calls) = 1 /\ Calls[1].setLimit = opts.FindLimit
    /\ Resp.status = StatusOK

(* C10.  A find request whose limit parameter is not an integer is         *)
(* answered 400 and makes no engine call.                                  *)
C10_NonIntegerLimitRejected ==
    (Handled /\ Req.route = FindRoute /\ Req.limit.ok
        /\ Req.limit.value \in {<<>>, <<"x">>})
    => /\ Resp.status = StatusBadRequest
       /\ Calls = <<>>
       /\ (HasDatabase /\ Req.name # "") => Resp.msg = "Limit is not an int: %s"

\* limit=x on an otherwise sound find
C10_Witness ==
    /\ Handled /\ Req.route = FindRoute /\ Req.limit = Passed(<<"x">>)
    /\ Req.database = Passed("app") /\ Req.name = "users" /\ Req.body = "{}"
    /\ Resp.status = StatusBadRequest /\ Resp.msg = "Limit is not an int: %s"

----------------------------------------------------------------------------
(* Vocabulary of the claims on bodies, failures and calls.                 *)

\* the bodies that are JSON objects
JSONObjects == {"{}", "{\"Aggregate\":1}", "{\"Aggregate\":[]}"}

\* the error that the engine returns for a call, "" for none: the error of
\* the execution or, for the calls that return a cursor, of cursor.All
CallFailure(e, c) ==
    LET failed == IF c.fn = "ListDatabaseNames"
                  THEN (IF e.fail = "exec" THEN "engine failure" ELSE "")
                  ELSE ExecError(e, c.db, c.doc)
    IN  IF failed # "" THEN failed
        ELSE IF c.fn \in {"Find", "Aggregate"} THEN DecodeError(e)
        ELSE ""

\* the limit that the request passes is an integer within the server's
\* maximum; a request that passes none has nothing to be wrong
PassedLimitValid ==
    Req.limit.ok =>
        /\ Atoi(Req.limit.value).ok
        /\ ~OverMaxLimit(srv, Atoi(Req.limit.value).value)

\* something that the request itself had to bring is missing or invalid
InputMissingOrInvalid ==
    \/ Req.route \in NamedDBRoutes /\ ~HasDatabase
    \/ Req.route \in {FindRoute, CountRoute, AggregateRoute} /\ Req.name = ""
    \/ Req.route = FindRoute /\ ~PassedLimitValid
    \/ Req.route \in {FindRoute, CountRoute, AggregateRoute}
          /\ ShouldBindJSON(Req.body).err
    \/ Req.route = AggregateRoute /\ Req.body # "{\"Aggregate\":[]}"

\* every input of the request is valid: the database is named, and so is
\* the collection, the effective limit is an integer within the maximum, the
\* body decodes, and an aggregate body carries a pipeline
ValidInput ==
    /\ Req.route \in NamedDBRoutes => HasDatabase
    /\ Req.route \in {FindRoute, CountRoute, AggregateRoute} =>
          Req.name # "" /\ ~ShouldBindJSON(Req.body).err
    /\ Req.route = FindRoute =>
          /\ Atoi(LimitString(srv, Req)).ok
          /\ ~OverMaxLimit(srv, Atoi(LimitString(srv, Req)).value)
    /\ Req.route = AggregateRoute => Req.body = "{\"Aggregate\":[]}"

----------------------------------------------------------------------------
(* C11.  A find or count request whose body is not a JSON object is        *)
(* answered 400 and makes no engine call.  The body null refutes it: it    *)
(* decodes without error and the request goes on to the engine.            *)
C11_AsStated ==
    (Handled /\ Req.route \in {FindRoute, CountRoute}
        /\ Req.body \notin JSONObjects)
    => /\ Resp.status = StatusBadRequest
       /\ Calls = <<>>

(* C12.  A failed engine call is answered 500 with the engine's error text *)
(* after one call; a 500 comes only from a failed engine call, and a 400   *)
(* only from an input of the request that is missing or invalid.  The      *)
(* panic of an aggregate without a pipeline refutes the second part.       *)
C12_AsStated ==
    (Handled /\ Req.route \in FiveRoutes)
    => /\ (Calls # <<>> /\ CallFailure(Eng, Calls[1]) # "")
            => /\ Resp.status = StatusInternalServerError
               /\ Resp.errText = CallFailure(Eng, Calls[1])
               /\ Len(Calls) = 1
       /\ Resp.status = StatusInternalServerError
            => Calls # <<>> /\ CallFailure(Eng, Calls[1]) # ""
       /\ Resp.status = StatusBadRequest => InputMissingOrInvalid

(* C13, as stated.  Every request whose input is valid makes exactly one   *)
(* engine call, and a request answered 400 makes none.                     *)
C13_AsStated ==
    (Handled /\ Req.route \in FiveRoutes)
    => /\ ValidInput => Len(Calls) = 1
       /\ Resp.status = StatusBadRequest => Calls = <<>>

(* C13.  A request whose input is valid makes exactly one engine call,     *)
(* except list-databases under a fixed database, which makes none; a       *)
(* request answered 400 makes none.                                        *)
C13_OneCallUnlessFixedList ==
    (Handled /\ Req.route \in FiveRoutes)
    => /\ ValidInput =>
            Len(Calls) = IF Req.route = "GET /api/databases"
                            /\ opts.DefaultDB # "" THEN 0 ELSE 1
       /\ Resp.status = StatusBadRequest => Calls = <<>>

\* a count that the failing engine refuses, after its one call
C13_Witness ==
    /\ Handled /\ Req.route = CountRoute /\ ValidInput
    /\ Eng.fail = "exec" /\ Len(Calls) = 1
    /\ Resp.status = StatusInternalServerError

(* C14.  Start connects, pings once, registers the routes and serves, in   *)
(* this order; when the connect or the ping fails Start returns that       *)
(* error, no route is registered and no request is served from then on.    *)
C14_StartOrder ==
    [][/\ (pc' # pc /\ pc' \in {"connected", "pinged", "routed", "serving"})
            => <<pc, pc'>> \in {<<"created", "connected">>,
                                <<"connected", "pinged">>,
                                <<"pinged", "routed">>,
                                <<"routed", "serving">>}
       /\ mongoClient' # mongoClient /\ mongoClient' = "connected"
            => pc = "created"
       /\ routes' # routes
            => pc = "pinged" /\ pc' = "routed" /\ routes' = BuiltinRoutes
       /\ cur' # cur /\ cur' # <<>> => pc = "serving" /\ routes = BuiltinRoutes
       /\ (pc' = "returned" /\ pc \in {"created", "connected"})
            => startErr' = (IF pc = "created" THEN "connect" ELSE "ping")
       /\ startErr' \in {"connect", "ping"}
            => pc' = "returned" /\ routes' = {} /\ cur' = <<>>
       /\ startErr \in {"connect", "ping"} => startErr' = startErr
      ]_vars

\* Start has returned the error of the ping, and no route is registered
C14_Witness ==
    pc = "returned" /\ startErr = "ping" /\ routes = {} /\ cur = <<>>

(* C15.  When Start returns after a successful connect the handle has been *)
(* released exactly once; a failed release is only logged and what Start   *)
(* returns is still the error it returned for; when the connect itself     *)
(* fails nothing is released.                                              *)
C15_ReleasedOnce ==
    /\ pc # "returned" => released = 0 /\ ~logged
    /\ pc = "returned"
         => /\ startErr \in {"connect", "ping", "router", "run"}
            /\ startErr = "connect"
                 => released = 0 /\ ~logged /\ mongoClient = "nil"
            /\ startErr # "connect"
                 => released = 1 /\ mongoClient = "disconnected"

\* the router stopped, the release failed and was logged, and Start
\* returned the router's error
C15_Witness ==
    /\ pc = "returned" /\ startErr = "run"
    /\ released = 1 /\ logged /\ mongoClient = "disconnected"

(* C16.  While the server is serving, GET / is answered 200 with no body   *)
(* and no engine call, whatever the engine's state is, and no middleware   *)
(* of the /api group stands before it.                                     *)
C16_RootAlwaysOK ==
    /\ \A m \in Middlewares : <<"GET /", m>> \notin chain
    /\ (cur # <<>> /\ Req.route = "GET /")
         => /\ Resp.status = StatusOK
            /\ Resp.msg = "" /\ Resp.errText = "" /\ Resp.json = NoBody
            /\ Calls = <<>>

\* GET / answered 200 while the engine is failing and the /api group has a
\* middleware, which stands before the /api routes
C16_Witness ==
    /\ cur # <<>> /\ Req.route = "GET /" /\ Resp.status = StatusOK
    /\ Eng.fail = "exec"
    /\ apiHandlers # {}
    /\ \E m \in Middlewares : <<"GET /api/databases", m>> \in chain

\* the name that the last accepted call of SetCustomRouteName passed, the
\* default when none was accepted
LastAcceptedName ==
    LET accepted == {i \in 1..Len(setCalls) : setCalls[i].ok}
    IN  IF accepted = {} THEN ServerOptions.CustomRouteName
        ELSE setCalls[CHOOSE i \in accepted : \A j \in accepted : j <= i].value

(* C17.  SetCustomRouteName refuses "/" and "/api" and leaves the stored   *)
(* name as it is; it accepts every other name and stores it: after any     *)
(* sequence of calls the stored name is the default or the last accepted   *)
(* one.                                                                    *)
C17_CustomRouteName ==
    /\ \A i \in 1..Len(setCalls) :
          setCalls[i].ok <=> setCalls[i].value \notin {"/", "/api"}
    /\ opts.CustomRouteName = LastAcceptedName
    /\ opts.CustomRouteName \notin {"/", "/api"}

\* a name was accepted and the call after it refused: the accepted name is
\* still the stored one
C17_Witness ==
    /\ Len(setCalls) >= 2
    /\ setCalls[Len(setCalls) - 1] = Result("api", TRUE)
    /\ setCalls[Len(setCalls)] = Result("/api", FALSE)
    /\ opts.CustomRouteName = "api"

(* C18.  Concurrent requests are handled independently: no handler step   *)
(* changes the server struct that NewServer built, and whatever the other  *)
(* goroutine does, a request is answered as the handler answers it when it *)
(* runs alone against the engine state that its call met.                  *)
C18_Independent ==
    /\ pc = "serving" => srv = MakeServer(opts)
    /\ \A g \in Goroutines :
          inflight[g][1] = "done"
             => inflight[g][2].out
                   = Handle(MakeServer(opts), inflight[g][2].eng,
                            inflight[g][2].req)

\* one goroutine has been refused for want of a database while the other,
\* which names one, is between its checks and its engine call
C18_Witness ==
    /\ inflight["g1"][1] = "done"
    /\ inflight["g1"][2].req.route = "GET /api/collections"
    /\ inflight["g1"][2].out.resp.status = StatusBadRequest
    /\ inflight["g2"][1] = "calling"
    /\ inflight["g2"][2].database = Passed("app")

(* C19.  A handler of the caller that runs while the server is serving     *)
(* gets from GetMongoClient the handle that Start connected and pinged,    *)
(* never the nil one: it is the server's own field, which the built-in     *)
(* handlers use.  The example handler therefore never panics and, unless a *)
(* middleware answered in its place, makes its one call on a connected     *)
(* client.                                                                 *)
C19_ClientIsConnected ==
    /\ pc = "serving" => GetMongoClient = "connected" /\ released = 0
    /\ (cur # <<>> /\ Req.route = CustomRoute /\ Resp.status # 401)
         => /\ pc = "serving"
            /\ ~Resp.fault
            /\ Len(Calls) = 1
            /\ Resp.errText # "client is disconnected"

\* the example handler has counted the documents of app.users
C19_Witness ==
    /\ cur # <<>> /\ Req.route = CustomRoute /\ Resp.status = StatusOK
    /\ Resp.json = Json("Count", {}, NumDocs)

(* C20.  A find that passes limit=0 is issued with the configured default *)
(* limit.  It is issued with 0, which the engine reads as no limit.        *)
C20_AsStated ==
    (Handled /\ Req.route = FindRoute /\ Req.limit = Passed(Itoa(0))
        /\ Calls # <<>>)
    => Calls[1].setLimit = opts.FindLimit

Collides == routes \cap BuiltinRoutes # {} /\ pc \in {"created", "connected", "pinged"}

(* C22.  For the default custom route name and for every name that         *)
(* SetCustomRouteName accepts, the custom group that NewServer makes has a *)
(* base path that is neither the root nor that of the /api group, and no   *)
(* route added under it is one of the built-in routes.  The accepted names *)
(* api, /api/ and the empty one refute it.                                 *)
C22_AsStated ==
    srv # ZeroServer
    => /\ srv.customRouter \notin {GroupBase("/"), GroupBase("/api")}
       /\ ~Collides

\* the built-in routes that createRoutes puts on the /api group
ApiRoutes == BuiltinRoutes \ {"GET /"}

(* C23 as stated.  Once the routes are there, every route of a group has   *)
(* every middleware of its group before its handler, whatever the order of *)
(* the calls was.                                                          *)
C23_AsStated ==
    pc \in {"routed", "serving"}
    => \A r \in routes, m \in Middlewares :
          /\ (r \in ApiRoutes /\ m \in apiHandlers) => <<r, m>> \in chain
          /\ (r \in CustomRoutes \ BuiltinRoutes /\ m \in customHandlers)
                => <<r, m>> \in chain

(* C23.  A built-in /api route, registered at Start, has exactly the       *)
(* middleware given to SetAPIMiddleware before its handler.  A route of    *)
(* the caller has exactly the middleware that the custom group had when    *)
(* the route was added: a later SetCustomMiddleware does not change it.    *)
(* Only a middleware before a route can answer a request to that route.    *)
C23_GuardedAsRegistered ==
    [][/\ \A r \in CustomRoutes \ BuiltinRoutes, m \in Middlewares :
            /\ r \in routes => (<<r, m>> \in chain' <=> <<r, m>> \in chain)
            /\ (r \notin routes /\ r \in routes')
                 => (<<r, m>> \in chain' <=> m \in customHandlers)
       /\ pc' \in {"routed", "serving"}
            => \A r \in ApiRoutes, m \in Middlewares :
                  <<r, m>> \in chain' <=> m \in apiHandlers'
       /\ (cur' # cur /\ cur' # <<>> /\ cur'[1].out.resp.status = 401)
            => <<cur'[1].req.route, cur'[1].out.resp.msg>> \in chain
      ]_vars

\* the example route was added before the custom group was given its
\* middleware: a request to it is served with no middleware before it, while
\* the /api routes have theirs
C23_Witness ==
    /\ cur # <<>> /\ Req.route = CustomRoute /\ Resp.status = StatusOK
    /\ customHandlers # {} /\ apiHandlers # {}
    /\ \A m \in Middlewares :
          <<CustomRoute, m>> \notin chain /\ <<"GET /api/databases", m>> \in chain

====
